---- MODULE Spec2Model ----
(***************************************************************************)
(* Langton's ant as implemented in src/main.rs: the Direction and State    *)
(* enums, the construction done by init, and the loop of Main::start, one  *)
(* action per loop iteration.                                              *)
(*                                                                         *)
(* The grid (Box<[Box<[Cell]>]>, h rows of w cells) is kept as the record  *)
(* [rows, cols, white]: the number of rows, the length of every row, and   *)
(* the set of <<x, y>> whose cell is White; every other cell is Black.     *)
(* This is an exact encoding of a rectangular two-state array and lets the *)
(* model hold grids with 65535 rows.                                       *)
(***************************************************************************)
EXTENDS Integers, Sequences, FiniteSets

VARIABLES grid, x, y, heading, delay, path, show_counter,
          index, pc, window, current, new_char, accessed, visits

vars == <<grid, x, y, heading, delay, path, show_counter,
          index, pc, window, current, new_char, accessed, visits>>

\* ------------------------------------------------------------------ bounds
\* Largest terminal width and height the construction is tried with.
MaxDim == 5
\* Largest number of loop iterations of one run.
MaxIndex == 24

\* ------------------------------------------------------- program constants
\* Number of values of a u16 (the casts `as u16`).
U16 == 65536
\* Default delay in milliseconds.
DefaultDelay == 20

Delays == {0, DefaultDelay}
\* What getch() can return: nothing, the quit key, any other key.
Keys == {"none", "q", "other"}
\* Grid sizes and start coordinates of the specification that starts the ant
\* next to an edge.
EdgeDims == {1, 2, U16 - 1}
EdgeCoords(n) == {0, n - 1}

\* --------------------------------------------------------------- Direction
Direction == {"Up", "Down", "Left", "Right"}

rotate_leftAsRight(d) ==
    CASE d = "Up" -> "Right"
      [] d = "Right" -> "Down"
      [] d = "Down" -> "Left"
      [] d = "Left" -> "Up"

rotate_left(d) ==
    CASE d = "Up" -> "Left"
      [] d = "Left" -> "Down"
      [] d = "Down" -> "Right"
      [] d = "Right" -> "Up"

rotate_rightHalfTurn(d) ==
    CASE d = "Up" -> "Down"
      [] d = "Right" -> "Left"
      [] d = "Down" -> "Up"
      [] d = "Left" -> "Right"

rotate_right(d) ==
    CASE d = "Up" -> "Right"
      [] d = "Right" -> "Down"
      [] d = "Down" -> "Left"
      [] d = "Left" -> "Up"

offsetDownAsUp(d) ==
    CASE d = "Up" -> <<0, 1>>
      [] d = "Down" -> <<0, 1>>
      [] d = "Left" -> <<1, 0>>
      [] d = "Right" -> <<-1, 0>>

offset(d) ==
    CASE d = "Up" -> <<0, 1>>
      [] d = "Down" -> <<0, -1>>
      [] d = "Left" -> <<1, 0>>
      [] d = "Right" -> <<-1, 0>>

\* ------------------------------------------------------------------- State
State == {"White", "Black"}

toggleStuck(s) == s

toggle(s) ==
    CASE s = "White" -> "Black"
      [] s = "Black" -> "White"

\* -------------------------------------------------------------------- grid
NewGridTransposed(w, h) == [rows |-> w, cols |-> h, white |-> {}]

\* vec![vec![Cell { state: State::Black }; w]; h]
NewGrid(w, h) == [rows |-> h, cols |-> w, white |-> {}]

\* self.grid.len() and self.grid[x].len()
GridLen(g) == g.rows
RowLen(g, px) == g.cols

\* self.grid[x][y].state
CellAt(g, px, py) == IF <<px, py>> \in g.white THEN "White" ELSE "Black"

SetCellTransposed(g, px, py, s) ==
    [g EXCEPT !.white = IF s = "White" THEN @ \cup {<<py, px>>}
                                       ELSE @ \ {<<py, px>>}]

\* self.grid[x][y].state = s
SetCell(g, px, py, s) ==
    [g EXCEPT !.white = IF s = "White" THEN @ \cup {<<px, py>>}
                                       ELSE @ \ {<<px, py>>}]

\* An index operation on the grid: grid[row] (col = NoCol) or grid[row][col].
NoCol == -1
RowAccess(px) == [row |-> px, col |-> NoCol]
CellAccess(px, py) == [row |-> px, col |-> py]

\* ---------------------------------------------------------- one loop body
AsU16Saturating(v) == IF v < 0 THEN 0 ELSE IF v > U16 - 1 THEN U16 - 1 ELSE v

\* `v as u16` of an isize: truncation to 16 bits.
AsU16(v) == v % U16

CandidateUnswapped(px, py, hd) ==
    LET ox == offset(hd)[1]
        oy == offset(hd)[2]
    IN  [x |-> AsU16(px + ox), y |-> AsU16(py + oy)]

\* let (oy, ox) = self.heading.offset(); self.x = ...; self.y = ...;
Candidate(px, py, hd) ==
    LET oy == offset(hd)[1]
        ox == offset(hd)[2]
    IN  [x |-> AsU16(px + ox), y |-> AsU16(py + oy)]

BoundsCheckEager(g, nx, ny) ==
    [out |-> (nx >= GridLen(g)) \/ (ny >= RowLen(g, nx)),
     accessed |-> {RowAccess(nx)}]

\* x >= self.grid.len() || y >= self.grid[x].len(): the row is indexed only
\* when the first comparison is false.
BoundsCheck(g, nx, ny) ==
    IF nx >= GridLen(g)
    THEN [out |-> TRUE, accessed |-> {}]
    ELSE [out |-> ny >= RowLen(g, nx), accessed |-> {RowAccess(nx)}]

MatchSwappedTurns(cur, hd, p) ==
    CASE cur = "White" ->
           [state |-> "Black", heading |-> rotate_right(hd),
            new_char |-> IF p THEN "shade" ELSE "blank"]
      [] cur = "Black" ->
           [state |-> "White", heading |-> rotate_left(hd),
            new_char |-> "full"]

MatchTurnOnlyWithPath(cur, hd, p) ==
    CASE cur = "White" ->
           [state |-> "Black",
            heading |-> IF p THEN rotate_left(hd) ELSE hd,
            new_char |-> IF p THEN "shade" ELSE "blank"]
      [] cur = "Black" ->
           [state |-> "White", heading |-> rotate_right(hd),
            new_char |-> "full"]

\* The match on current.state: the state its branch stores in the cell, the
\* new heading and the symbol ("shade" is the path marker, "full" the block).
Match(cur, hd, p) ==
    CASE cur = "White" ->
           [state |-> "Black", heading |-> rotate_left(hd),
            new_char |-> IF p THEN "shade" ELSE "blank"]
      [] cur = "Black" ->
           [state |-> "White", heading |-> rotate_right(hd),
            new_char |-> "full"]

ApplyDoubleToggle(g, nx, ny, hd, p) ==
    LET cur == CellAt(g, nx, ny)
        m   == Match(cur, hd, p)
        g1  == SetCell(g, nx, ny, m.state)
        g2  == SetCell(g1, nx, ny, toggle(CellAt(g1, nx, ny)))
    IN  [grid |-> g2, heading |-> m.heading, current |-> cur,
         new_char |-> m.new_char, branch |-> m.state,
         accessed |-> {CellAccess(nx, ny)}]

\* The rest of the body once the bounds check is passed: read current, run
\* the match (which writes the cell), then write current.state.toggle().
Apply(g, nx, ny, hd, p) ==
    LET cur == CellAt(g, nx, ny)
        m   == Match(cur, hd, p)
        g1  == SetCell(g, nx, ny, m.state)
        g2  == SetCell(g1, nx, ny, toggle(cur))
    IN  [grid |-> g2, heading |-> m.heading, current |-> cur,
         new_char |-> m.new_char, branch |-> m.state,
         accessed |-> {CellAccess(nx, ny)}]

StepKeepsPosition(g, px, py, hd, p) ==
    LET c == Candidate(px, py, hd)
        b == BoundsCheck(g, c.x, c.y)
    IN  IF b.out
        THEN [left |-> TRUE, x |-> px, y |-> py, grid |-> g, heading |-> hd,
              current |-> "none", new_char |-> "none", branch |-> "none",
              accessed |-> b.accessed]
        ELSE LET a == Apply(g, c.x, c.y, hd, p)
             IN  [left |-> FALSE, x |-> c.x, y |-> c.y, grid |-> a.grid,
                  heading |-> a.heading, current |-> a.current,
                  new_char |-> a.new_char, branch |-> a.branch,
                  accessed |-> b.accessed \cup a.accessed]

\* The loop body after the quit check: move, bounds check, rule.
Step(g, px, py, hd, p) ==
    LET c == Candidate(px, py, hd)
        b == BoundsCheck(g, c.x, c.y)
    IN  IF b.out
        THEN [left |-> TRUE, x |-> c.x, y |-> c.y, grid |-> g, heading |-> hd,
              current |-> "none", new_char |-> "none", branch |-> "none",
              accessed |-> b.accessed]
        ELSE LET a == Apply(g, c.x, c.y, hd, p)
             IN  [left |-> FALSE, x |-> c.x, y |-> c.y, grid |-> a.grid,
                  heading |-> a.heading, current |-> a.current,
                  new_char |-> a.new_char, branch |-> a.branch,
                  accessed |-> b.accessed \cup a.accessed]

\* index.to_string(): the decimal digits of a non-negative integer.
RECURSIVE to_string(_)
to_string(n) == IF n < 10 THEN <<n>> ELSE to_string(n \div 10) \o <<n % 10>>

DrawAtTransposed(cells, row, col, ch) ==
    {c \in cells : ~(c[1] = col /\ c[2] = row)} \cup {<<col, row, ch>>}

\* mvaddstr(row, col, ch) on the cells drawn so far.
DrawAt(cells, row, col, ch) ==
    {c \in cells : ~(c[1] = row /\ c[2] = col)} \cup {<<row, col, ch>>}

\* Number of times the ant has stepped onto cell c (history of the run).
VisitsOf(v, c) == IF c \in DOMAIN v THEN v[c] ELSE 0
AddVisit(v, c) ==
    [d \in DOMAIN v \cup {c} |-> IF d = c THEN VisitsOf(v, c) + 1 ELSE v[d]]

\* -------------------------------------------------------------------- Init
\* init(w, h, window, delay, path, counter), up to the call of start, whose
\* index starts at 0.
init(w, h, d, p, c) ==
    /\ x = h \div 2
    /\ y = w \div 2
    /\ grid = NewGrid(w, h)
    /\ heading = "Right"
    /\ delay = d
    /\ path = p
    /\ show_counter = c
    /\ index = 0
    /\ pc = "running"
    /\ window = [counter |-> <<>>, cells |-> {}]
    /\ current = "none"
    /\ new_char = "none"
    /\ accessed = {}
    /\ visits = <<>>

Init ==
    \E w \in 0..MaxDim, h \in 0..MaxDim, d \in Delays,
       p \in BOOLEAN, c \in BOOLEAN : init(w, h, d, p, c)

\* The ant on an all-Black grid at an in-bounds position next to an edge,
\* with any heading: the inputs of one step near the limits of u16.
InitEdge ==
    \E h \in EdgeDims, w \in EdgeDims, d \in Delays,
       p \in BOOLEAN, c \in BOOLEAN, hd \in Direction :
      \E px \in EdgeCoords(h), py \in EdgeCoords(w) :
        /\ x = px
        /\ y = py
        /\ grid = NewGrid(w, h)
        /\ heading = hd
        /\ delay = d
        /\ path = p
        /\ show_counter = c
        /\ index = 0
        /\ pc = "running"
        /\ window = [counter |-> <<>>, cells |-> {}]
        /\ current = "none"
        /\ new_char = "none"
        /\ accessed = {}
        /\ visits = <<>>

\* ------------------------------------------------------------------ action
LoopIterationKeySkips(key) ==
    /\ pc = "running"
    /\ index < MaxIndex
    /\ index' = index + 1
    /\ UNCHANGED <<delay, path, show_counter>>
    /\ IF key = "q"
       THEN /\ pc' = "quit"
            /\ window' = [window EXCEPT !.counter =
                            IF show_counter THEN to_string(index + 1) ELSE @]
            /\ UNCHANGED <<grid, x, y, heading, current, new_char,
                           accessed, visits>>
       ELSE IF key = "other"
       THEN /\ window' = [window EXCEPT !.counter =
                            IF show_counter THEN to_string(index + 1) ELSE @]
            /\ UNCHANGED <<grid, x, y, heading, current, new_char,
                           accessed, visits, pc>>
       ELSE LET r == Step(grid, x, y, heading, path)
            IN  /\ x' = r.x
                /\ y' = r.y
                /\ accessed' = r.accessed
                /\ IF r.left
                   THEN /\ pc' = "left"
                        /\ window' = [window EXCEPT !.counter =
                             IF show_counter THEN to_string(index + 1) ELSE @]
                        /\ UNCHANGED <<grid, heading, current, new_char,
                                       visits>>
                   ELSE /\ pc' = "running"
                        /\ grid' = r.grid
                        /\ heading' = r.heading
                        /\ current' = r.current
                        /\ new_char' = r.new_char
                        /\ window' =
                             [counter |-> IF show_counter
                                          THEN to_string(index + 1)
                                          ELSE window.counter,
                              cells |-> DrawAt(window.cells, r.x, r.y,
                                               r.new_char)]
                        /\ visits' = AddVisit(visits, <<r.x, r.y>>)

LoopIterationQuitAfterMove(key) ==
    /\ pc = "running"
    /\ index < MaxIndex
    /\ index' = index + 1
    /\ UNCHANGED <<delay, path, show_counter>>
    /\ IF key = "q"
       THEN /\ pc' = "quit"
            /\ x' = Candidate(x, y, heading).x
            /\ y' = Candidate(x, y, heading).y
            /\ window' = [window EXCEPT !.counter =
                            IF show_counter THEN to_string(index + 1) ELSE @]
            /\ UNCHANGED <<grid, heading, current, new_char,
                           accessed, visits>>
       ELSE LET r == Step(grid, x, y, heading, path)
            IN  /\ x' = r.x
                /\ y' = r.y
                /\ accessed' = r.accessed
                /\ IF r.left
                   THEN /\ pc' = "left"
                        /\ window' = [window EXCEPT !.counter =
                             IF show_counter THEN to_string(index + 1) ELSE @]
                        /\ UNCHANGED <<grid, heading, current, new_char,
                                       visits>>
                   ELSE /\ pc' = "running"
                        /\ grid' = r.grid
                        /\ heading' = r.heading
                        /\ current' = r.current
                        /\ new_char' = r.new_char
                        /\ window' =
                             [counter |-> IF show_counter
                                          THEN to_string(index + 1)
                                          ELSE window.counter,
                              cells |-> DrawAt(window.cells, r.x, r.y,
                                               r.new_char)]
                        /\ visits' = AddVisit(visits, <<r.x, r.y>>)

LoopIterationQuitUncounted(key) ==
    /\ pc = "running"
    /\ index < MaxIndex
    /\ index' = IF key = "q" THEN index ELSE index + 1
    /\ UNCHANGED <<delay, path, show_counter>>
    /\ IF key = "q"
       THEN /\ pc' = "quit"
            /\ UNCHANGED <<grid, x, y, heading, current, new_char,
                           accessed, visits, window>>
       ELSE LET r == Step(grid, x, y, heading, path)
            IN  /\ x' = r.x
                /\ y' = r.y
                /\ accessed' = r.accessed
                /\ IF r.left
                   THEN /\ pc' = "left"
                        /\ window' = [window EXCEPT !.counter =
                             IF show_counter THEN to_string(index + 1) ELSE @]
                        /\ UNCHANGED <<grid, heading, current, new_char,
                                       visits>>
                   ELSE /\ pc' = "running"
                        /\ grid' = r.grid
                        /\ heading' = r.heading
                        /\ current' = r.current
                        /\ new_char' = r.new_char
                        /\ window' =
                             [counter |-> IF show_counter
                                          THEN to_string(index + 1)
                                          ELSE window.counter,
                              cells |-> DrawAt(window.cells, r.x, r.y,
                                               r.new_char)]
                        /\ visits' = AddVisit(visits, <<r.x, r.y>>)

\* One iteration of the loop of Main::start, with the key getch() returns.
\* Ends the run on 'q' (break) and when the ant leaves the grid (return).
LoopIteration(key) ==
    /\ pc = "running"
    /\ index < MaxIndex
    /\ index' = index + 1
    /\ UNCHANGED <<delay, path, show_counter>>
    /\ IF key = "q"
       THEN /\ pc' = "quit"
            /\ window' = [window EXCEPT !.counter =
                            IF show_counter THEN to_string(index + 1) ELSE @]
            /\ UNCHANGED <<grid, x, y, heading, current, new_char,
                           accessed, visits>>
       ELSE LET r == Step(grid, x, y, heading, path)
            IN  /\ x' = r.x
                /\ y' = r.y
                /\ accessed' = r.accessed
                /\ IF r.left
                   THEN /\ pc' = "left"
                        /\ window' = [window EXCEPT !.counter =
                             IF show_counter THEN to_string(index + 1) ELSE @]
                        /\ UNCHANGED <<grid, heading, current, new_char,
                                       visits>>
                   ELSE /\ pc' = "running"
                        /\ grid' = r.grid
                        /\ heading' = r.heading
                        /\ current' = r.current
                        /\ new_char' = r.new_char
                        /\ window' =
                             [counter |-> IF show_counter
                                          THEN to_string(index + 1)
                                          ELSE window.counter,
                              cells |-> DrawAt(window.cells, r.x, r.y,
                                               r.new_char)]
                        /\ visits' = AddVisit(visits, <<r.x, r.y>>)

NextKeepsLooping ==
    \/ \E key \in Keys : LoopIteration(key)
    \/ /\ pc = "left"
       /\ index < MaxIndex
       /\ pc' = "running"
       /\ UNCHANGED <<grid, x, y, heading, delay, path, show_counter, index,
                      window, current, new_char, accessed, visits>>

Next == \E key \in Keys : LoopIteration(key)

Spec == Init /\ [][Next]_vars

SpecEdge == InitEdge /\ [][Next]_vars

\* The loop never blocks: getch() does not wait (nodelay) and the sleep is
\* finite, so an iteration that can run does run.
SpecLive == Init /\ [][Next]_vars /\ WF_vars(Next)

\* ----------------------------------------------------- shapes of one step
\* A loop iteration that moved the ant and stayed on the grid.
OnGridStep == pc = "running" /\ pc' = "running" /\ index' = index + 1
\* A loop iteration whose candidate position failed the bounds check.
LeavingStep == pc = "running" /\ pc' = "left"

\* The colour of the entered cell before and after a step.
Entered == CellAt(grid, x', y')
EnteredAfter == CellAt(grid', x', y')

\* The state after n loop iterations without a quit key of a run constructed
\* with width w and height h and drawing with show_path = p: a function of
\* w, h, n and p alone.
RECURSIVE Replay(_, _, _, _)
Replay(w, h, n, p) ==
    IF n = 0
    THEN [grid |-> NewGrid(w, h), x |-> h \div 2, y |-> w \div 2,
          heading |-> "Right", left |-> FALSE]
    ELSE LET s == Replay(w, h, n - 1, p)
         IN  IF s.left
             THEN s
             ELSE LET r == Step(s.grid, s.x, s.y, s.heading, p)
                  IN  [grid |-> r.grid, x |-> r.x, y |-> r.y,
                       heading |-> r.heading, left |-> r.left]

\* Number of loop iterations that got past the quit check.
StepsTaken == IF pc = "quit" THEN index - 1 ELSE index

SameAsReplay(p) ==
    LET s == Replay(grid.cols, grid.rows, StepsTaken, p)
    IN  /\ s.grid = grid
        /\ s.x = x
        /\ s.y = y
        /\ s.heading = heading
        /\ s.left <=> (pc = "left")

\* ------------------------------------------------------------------ claims

\* C1: a step that stays on the grid and enters a White cell leaves the cell
\* Black and turns the heading with rotate_left; one that enters a Black
\* cell leaves it White and turns with rotate_right.
C1_StepAppliesRule ==
    [][OnGridStep =>
         /\ (Entered = "White" =>
               EnteredAfter = "Black" /\ heading' = rotate_left(heading))
         /\ (Entered = "Black" =>
               EnteredAfter = "White" /\ heading' = rotate_right(heading))
      ]_vars

C1_Witness ==
    /\ pc = "running"
    /\ current = "White"
    /\ CellAt(grid, x, y) = "Black"
    /\ new_char \in {"shade", "blank"}

\* C2 as stated: after a step that stays on the grid the entered cell stores
\* the colour it had when the step began.
C2_CellLeftUnchanged ==
    [][OnGridStep => EnteredAfter = Entered]_vars

\* C2 amended: the cell is written twice, by the match branch and by the
\* later write, and both writes store the opposite of the colour read, so
\* the cell ends toggled once; the symbol drawn is the block exactly when
\* the cell ends White.
C2_BothWritesStoreToggle ==
    [][OnGridStep =>
         LET a == Apply(grid, x', y', heading, path)
         IN  /\ a.branch # Entered
             /\ EnteredAfter = a.branch
             /\ EnteredAfter # Entered
             /\ (new_char' = "full") <=> (EnteredAfter = "White")
      ]_vars

C2_Witness ==
    /\ pc = "running"
    /\ current = "Black"
    /\ CellAt(grid, x, y) = "White"
    /\ new_char = "full"

\* C3 as stated: a step whose candidate position is outside the grid changes
\* no cell, keeps the heading and keeps the stored position.
C3_LeavingKeepsPosition ==
    [][LeavingStep =>
         grid' = grid /\ heading' = heading /\ x' = x /\ y' = y]_vars

\* C3 amended: a step whose candidate position is outside the grid changes
\* no cell and keeps the heading, and the stored position is the candidate,
\* reduced to 16 bits, which is outside the grid.
C3_LeavingCommitsCandidate ==
    [][LeavingStep =>
         /\ grid' = grid
         /\ heading' = heading
         /\ x' = (x + offset(heading)[2]) % U16
         /\ y' = (y + offset(heading)[1]) % U16
         /\ <<x', y'>> # <<x, y>>
         /\ (x' >= grid.rows \/ y' >= grid.cols)
      ]_vars

C3_Witness ==
    /\ pc = "left"
    /\ grid.white # {}
    /\ (x >= grid.rows \/ y >= grid.cols)

\* C4 as stated: a step that stays on the grid adds the first component of
\* offset() to x and the second to y, so that on the 5x5 grid the first step
\* from (2,2) heading Right ends at (1,2).
C4_MoveComponentwise ==
    [][OnGridStep =>
         /\ x' = x + offset(heading)[1]
         /\ y' = y + offset(heading)[2]
      ]_vars

Is5x5AfterOneStep ==
    grid.rows = 5 /\ grid.cols = 5 /\ index = 1 /\ pc = "running"

\* C4 amended: a step that stays on the grid adds the second component of
\* offset() to x and the first to y; on the 5x5 all-Black grid the first
\* step from (2,2) heading Right ends at (2,1), leaves that cell White and
\* the heading Down.
C4_MoveSwapsComponents ==
    /\ [][OnGridStep =>
            /\ x' = x + offset(heading)[2]
            /\ y' = y + offset(heading)[1]
         ]_vars
    /\ [](Is5x5AfterOneStep =>
            /\ x = 2
            /\ y = 1
            /\ grid.white = {<<2, 1>>}
            /\ heading = "Down")

C4_Witness ==
    Is5x5AfterOneStep /\ x = 2 /\ y = 1 /\ heading = "Down"

\* The candidate position in unbounded integers lies off the grid.
CandidateOffGrid ==
    LET cx == x + offset(heading)[2]
        cy == y + offset(heading)[1]
    IN  cx < 0 \/ cx >= grid.rows \/ cy < 0 \/ cy >= grid.cols

\* C5: from an in-bounds position of a grid with at least one row and one
\* column, a step whose candidate coordinate is off any edge ends the run
\* and changes no cell: -1 is not accepted after the cast and +1 does not
\* come back to 0; on a 1x1 grid the first step ends the run.
C5_NoWraparound ==
    /\ [][(pc = "running" /\ pc' # "quit" /\ index' = index + 1
           /\ CandidateOffGrid)
          => (pc' = "left" /\ grid' = grid)]_vars
    /\ []((grid.rows = 1 /\ grid.cols = 1 /\ index >= 1) => pc # "running")

\* The ant went off the last row of a grid of 65535 rows.
C5_Witness ==
    /\ pc = "left"
    /\ grid.rows = U16 - 1
    /\ heading = "Up"
    /\ x = U16 - 1
    /\ y < grid.cols

\* C6: a step that stays on the grid changes the colour of the cell at the
\* new position and of no other cell, and does not resize the grid.
C6_OneCellChanges ==
    [][OnGridStep =>
         /\ grid'.rows = grid.rows
         /\ grid'.cols = grid.cols
         /\ (grid'.white \ grid.white) \cup (grid.white \ grid'.white)
              = {<<x', y'>>}
      ]_vars

C6_Witness ==
    /\ pc = "running"
    /\ index >= 2
    /\ Cardinality(grid.white) >= 2
    /\ x # y

\* C7: a cell is White exactly when the ant has stepped onto it an odd
\* number of times, the colour read on a visit is the one the earlier visits
\* left, and the turn of every visit follows that colour.
C7_ColourIsVisitParity ==
    /\ [](\A c \in DOMAIN visits \cup grid.white :
            (c \in grid.white) <=> (VisitsOf(visits, c) % 2 = 1))
    /\ []((pc = "running" /\ current # "none") =>
            ((current = "White") <=> (VisitsOf(visits, <<x, y>>) % 2 = 0)))
    /\ [][OnGridStep =>
            heading' = IF VisitsOf(visits, <<x', y'>>) % 2 = 1
                       THEN rotate_left(heading)
                       ELSE rotate_right(heading)
         ]_vars

C7_Witness ==
    \E c \in DOMAIN visits : visits[c] >= 3 /\ c \notin grid.white

\* C8: the grid, position and heading of a run are those of the replay of
\* its width, height and number of steps: keys other than 'q', the delay and
\* the counter flag have no effect.
C8_Deterministic == SameAsReplay(path)

C8_Witness ==
    /\ pc = "running"
    /\ index >= 5
    /\ show_counter
    /\ delay = 0

\* C9: the grid, position and heading of a run, and the step at which it
\* leaves the grid, are those of the run with the other show_path value; the
\* symbol of the next step can differ only when the entered cell is White.
C9_FlagIndependent ==
    /\ SameAsReplay(~path)
    /\ pc = "running" =>
         LET a == Step(grid, x, y, heading, path)
             b == Step(grid, x, y, heading, ~path)
         IN  a.new_char # b.new_char => (~a.left /\ a.current = "White")

C9_Witness ==
    /\ pc = "running"
    /\ index >= 3
    /\ current = "White"
    /\ new_char = "blank"
    /\ ~path

\* C10: every index operation of a loop iteration is in range: the row is
\* below the number of rows and the column below the length of the row,
\* also when the grid has no rows or rows of no cells.
C10_AccessesInBounds ==
    \A a \in accessed :
      /\ a.row < GridLen(grid)
      /\ a.col # NoCol => a.col < RowLen(grid, a.row)

C10_Witness ==
    /\ pc = "left"
    /\ grid.cols = 0
    /\ accessed # {}

\* The construction parameters are invalid: no rows, or rows of no cells.
\* The start position h/2, w/2 is outside the grid exactly in these cases.
InvalidConstruction ==
    \/ grid.rows = 0
    \/ grid.cols = 0
    \/ x >= grid.rows /\ index = 0
    \/ y >= grid.cols /\ index = 0

\* C11: a construction with a zero width or height, or with a start position
\* outside the grid, ends in an error outcome before any step: the run is
\* never in the loop and no loop iteration is ever counted.
C11_InvalidRejected ==
    InvalidConstruction => (pc = "rejected" /\ index = 0)

\* C12: once a step has found its candidate outside the grid the run is over:
\* no later loop iteration runs, so the grid, the heading, the position, the
\* counter and everything drawn stay as they are.
C12_LeavingIsFinal ==
    [][pc = "left" =>
         /\ pc' = "left"
         /\ UNCHANGED <<grid, heading, x, y, index, window>>
      ]_vars

C12_Witness ==
    /\ pc = "left"
    /\ index >= 2
    /\ window.cells # {}

\* C13: a step that stays on the grid draws, at the new position, the block
\* when the entered cell was Black, whatever show_path is, and when it was
\* White the path marker if show_path is set and a blank if not; nothing
\* else on the screen changes.
C13_SymbolFollowsColour ==
    [][OnGridStep =>
         /\ Entered = "Black" => new_char' = "full"
         /\ (Entered = "White" /\ path) => new_char' = "shade"
         /\ (Entered = "White" /\ ~path) => new_char' = "blank"
         /\ <<x', y', new_char'>> \in window'.cells
         /\ \A c \in window'.cells :
              (c[1] = x' /\ c[2] = y') => c[3] = new_char'
         /\ {c \in window'.cells : <<c[1], c[2]>> # <<x', y'>>}
              = {c \in window.cells : <<c[1], c[2]>> # <<x', y'>>}
      ]_vars

C13_Witness ==
    /\ pc = "running"
    /\ path
    /\ current = "White"
    /\ new_char = "shade"
    /\ x # y
    /\ <<x, y, "shade">> \in window.cells

\* The coordinates of the cells of a grid.
CellsOf(g) == (0..(g.rows - 1)) \X (0..(g.cols - 1))

\* C14: before the first loop iteration of a run with width and height of at
\* least 1 the grid has rows * cols cells, all Black, the heading is Right
\* and the ant is on the centre cell rows/2, cols/2, which is in the grid.
C14_InitialState ==
    (index = 0 /\ grid.rows >= 1 /\ grid.cols >= 1) =>
      /\ pc = "running"
      /\ grid.white = {}
      /\ \A c \in CellsOf(grid) : CellAt(grid, c[1], c[2]) = "Black"
      /\ Cardinality(CellsOf(grid)) = grid.rows * grid.cols
      /\ heading = "Right"
      /\ x = grid.rows \div 2
      /\ y = grid.cols \div 2
      /\ x < GridLen(grid)
      /\ y < RowLen(grid, x)
      /\ <<x, y>> \in CellsOf(grid)

C14_Witness ==
    /\ index = 0
    /\ grid.rows = 5
    /\ grid.cols = 2
    /\ x = 2
    /\ y = 1

Rot4(h) == rotate_left(rotate_left(rotate_left(rotate_left(h))))
RotR4(h) == rotate_right(rotate_right(rotate_right(rotate_right(h))))

\* C15: for every heading, four rotate_left give the heading back, four
\* rotate_right give it back, rotate_left undoes rotate_right and
\* rotate_right undoes rotate_left; rotate_left runs Up, Left, Down, Right,
\* Up.
C15_RotationsCycle ==
    /\ \A h \in Direction :
         /\ rotate_left(h) \in Direction
         /\ rotate_right(h) \in Direction
         /\ Rot4(h) = h
         /\ RotR4(h) = h
         /\ rotate_right(rotate_left(h)) = h
         /\ rotate_left(rotate_right(h)) = h
    /\ rotate_left("Up") = "Left"
    /\ rotate_left("Left") = "Down"
    /\ rotate_left("Down") = "Right"
    /\ rotate_left("Right") = "Up"
    /\ heading \in Direction
    /\ rotate_right(rotate_left(heading)) = heading

\* A run in which both rotations have turned the ant.
C15_Witness ==
    /\ pc = "running"
    /\ index >= 6
    /\ current = "White"
    /\ heading = "Left"
    /\ \E c \in DOMAIN visits : visits[c] = 1

Opposite(h) == rotate_left(rotate_left(h))

\* C16: the offsets of opposite headings add up to (0,0), each offset moves
\* by one along exactly one axis, and the four offsets add up to (0,0).
C16_OffsetsCancel ==
    /\ offset("Up")[1] + offset("Down")[1] = 0
    /\ offset("Up")[2] + offset("Down")[2] = 0
    /\ offset("Left")[1] + offset("Right")[1] = 0
    /\ offset("Left")[2] + offset("Right")[2] = 0
    /\ \A h \in Direction :
         /\ offset(h)[1] \in {-1, 0, 1}
         /\ offset(h)[2] \in {-1, 0, 1}
         /\ (offset(h)[1] = 0) # (offset(h)[2] = 0)
    /\ offset("Up")[1] + offset("Down")[1]
         + offset("Left")[1] + offset("Right")[1] = 0
    /\ offset("Up")[2] + offset("Down")[2]
         + offset("Left")[2] + offset("Right")[2] = 0
    /\ (offset(heading)[1] = 0) # (offset(heading)[2] = 0)

\* A run in which the ant has moved with all four headings.
C16_Witness ==
    /\ pc = "running"
    /\ index >= 4
    /\ Cardinality(DOMAIN visits) >= 4
    /\ heading = "Right"

\* C17: a run in which the quit key is never read reaches a step whose
\* candidate is outside the grid and stops there.
C17_Terminates == ([](pc # "quit")) => <>(pc = "left")

C17_Witness ==
    /\ pc = "left"
    /\ index >= 20
    /\ Cardinality(grid.white) >= 5

\* C18: the loop iteration that reads 'q' stops the run without moving the
\* ant and without changing a cell, the heading or anything drawn for a
\* cell: the state at quit is the one the last completed step left.
C18_QuitBetweenSteps ==
    [][pc' = "quit" =>
         /\ pc = "running"
         /\ UNCHANGED <<grid, x, y, heading, current, new_char, visits>>
         /\ window'.cells = window.cells
      ]_vars

C18_Witness ==
    /\ pc = "quit"
    /\ index >= 3
    /\ grid.white # {}
    /\ <<x, y>> \in DOMAIN visits

Horizontal == {"Right", "Left"}

\* C19: the heading after a step that stays on the grid is neither the
\* heading the ant moved with nor its opposite, and starting from Right the
\* k-th move is along the Right/Left axis exactly when k is odd.
C19_TurnsArePerpendicular ==
    /\ [][OnGridStep =>
            /\ heading' # heading
            /\ heading' # Opposite(heading)
            /\ (heading \in Horizontal) <=> (index' % 2 = 1)
         ]_vars
    /\ [](pc = "running" => ((heading \in Horizontal) <=> (index % 2 = 0)))

C19_Witness ==
    /\ pc = "running"
    /\ index = 5
    /\ heading \in {"Up", "Down"}
    /\ current = "White"

\* Number of completed steps that stayed on the grid.
RECURSIVE SumVisits(_, _)
SumVisits(v, S) ==
    IF S = {}
    THEN 0
    ELSE LET c == CHOOSE d \in S : TRUE
         IN  v[c] + SumVisits(v, S \ {c})

CompletedSteps == SumVisits(visits, DOMAIN visits)

\* C20 as stated: in every reachable state the counter equals the number of
\* completed on-grid steps plus one.
C20_CounterIsStepsPlusOne == index = CompletedSteps + 1

\* C20 amended: every loop iteration first raises the counter to the number
\* of on-grid steps completed before it plus one and shows that value when
\* show_counter is set (1 in the first iteration); after an iteration that
\* stays on the grid the counter equals the number of completed on-grid
\* steps, and after the iteration that quits or leaves the grid it equals
\* that number plus one. Nothing is shown when show_counter is not set.
C20_CounterCountsIterations ==
    /\ [][index' # index =>
            /\ index' = CompletedSteps + 1
            /\ show_counter => window'.counter = to_string(CompletedSteps + 1)
            /\ ~show_counter => window'.counter = <<>>
         ]_vars
    /\ [][pc' # pc => index' = index + 1]_vars
    /\ [](pc = "running" => index = CompletedSteps)
    /\ [](pc \in {"quit", "left"} => index = CompletedSteps + 1)
    /\ []((index = 1 /\ show_counter) => window.counter = <<1>>)
    /\ []((index = 12 /\ show_counter) => window.counter = <<1, 2>>)
    /\ [](index = 0 => window.counter = <<>>)

C20_Witness ==
    /\ pc = "quit"
    /\ show_counter
    /\ index = 12
    /\ CompletedSteps = 11
    /\ window.counter = <<1, 2>>

====
